---- MODULE Spec2Model ----
(***************************************************************************)
(* Model of the Huffman codec of src/src/huffman.rs: frequency counting,   *)
(* tree construction over a min-heap keyed by (freq, id), derivation of    *)
(* the encoder table, the bit encoder and the decode loop.                 *)
(*                                                                         *)
(* A Tree is a record: [kind |-> "Leaf", token, freq] or                   *)
(* [kind |-> "Node", left, right, freq].  Bits are BOOLEAN, FALSE = 0 =    *)
(* left, TRUE = 1 = right.  Sequences are 1-based, so the i-th bit of the  *)
(* source's iterator is encoded_data[i+1].                                 *)
(***************************************************************************)
EXTENDS Integers, Sequences, FiniteSets, TLC

VARIABLES
    input,         \* bytes handed to Huffman::encode
    origin,        \* where the current Message comes from
    pc,            \* position of the running call
    heap,          \* minheap of construct_huffman_tree
    next_id,       \* next_id of construct_huffman_tree
    enc_result,    \* "None" | "Ok" | "Err": what Huffman::encode returned
    tree,          \* Message.tree
    encoded_data,  \* Message.encoded_data
    original_len,  \* Message.original_len
    runs,          \* number of encode calls made on input
    prev,          \* Message returned by the previous encode call
    node,          \* decode: cursor into the tree
    bitpos,        \* decode: index of the next bit the iterator yields
    decoded,       \* decode: bytes emitted so far
    dec_result,    \* what Huffman::decode returned
    last_result,   \* what Huffman::decode returned before padding was added
    events         \* code paths taken by the running call

vars == <<input, origin, pc, heap, next_id, enc_result, tree, encoded_data,
          original_len, runs, prev, node, bitpos, decoded, dec_result,
          last_result, events>>

----------------------------------------------------------------------------
(* Bounds *)

MaxLen == 4        \* longest input drawn from the model alphabet
NumSyms == 3       \* size of the model alphabet
MaxPad == 2        \* longest bit sequence appended to an encoded message
MaxLeaves == 3     \* most leaves of a deserialized (arbitrary) tree
MaxBits == 3       \* most bits of a deserialized (arbitrary) message
MaxOrig == 3       \* largest original_len of a deserialized message

(* Program constants *)

ByteMax == 255

Byte == 0..ByteMax

Alphabet == 65..(65 + NumSyms - 1)

\* "AAAAAAAABBBCCD"
SkewedInput == <<65, 65, 65, 65, 65, 65, 65, 65, 66, 66, 66, 67, 67, 68>>

RECURSIVE SeqsUpTo(_, _)
SeqsUpTo(S, n) ==
    IF n = 0 THEN {<<>>}
    ELSE LET shorter == SeqsUpTo(S, n - 1)
         IN  shorter \cup {Append(s, x) : s \in {t \in shorter : Len(t) = n - 1}, x \in S}

Inputs == SeqsUpTo(Alphabet, MaxLen) \cup {SkewedInput}

----------------------------------------------------------------------------
(* Tree *)

new_leaf(token, freq) == [kind |-> "Leaf", token |-> token, freq |-> freq]

freq(t) == t.freq

new_node_nosum(left, right) ==
    [kind |-> "Node", left |-> left, right |-> right, freq |-> freq(left)]

new_node(left, right) ==
    [kind |-> "Node", left |-> left, right |-> right,
     freq |-> freq(left) + freq(right)]

(* HeapNode and its Ord *)

HeapNode(f, id, t) == [freq |-> f, id |-> id, tree |-> t]

IntCmp(a, b) == IF a < b THEN "Less" ELSE IF a > b THEN "Greater" ELSE "Equal"

cmp_freq_only(self, other) == IntCmp(self.freq, other.freq)

cmp(self, other) ==
    IF IntCmp(self.freq, other.freq) # "Equal"
    THEN IntCmp(self.freq, other.freq)
    ELSE IntCmp(self.id, other.id)

\* BinaryHeap<Reverse<HeapNode>>::pop returns a greatest Reverse<HeapNode>,
\* that is an entry no other entry is less than under cmp; which one, among
\* entries that compare Equal, is up to the heap.
PopCandidates(h) == {e \in h : \A o \in h : cmp(e, o) # "Greater"}

(* FreqsTable *)

FreqsTable_new == [b \in Byte |-> 0]

\* u64::saturating_add.  The cap 2^64 - 1 is out of reach: the counts of a
\* table sum to the input length, a usize.
saturating_add(a, b) == a + b

FreqsTable_add(freqs, token, f) ==
    [freqs EXCEPT ![token] = saturating_add(freqs[token], f)]

RECURSIVE freqs_fold(_, _, _)
freqs_fold(data, i, freqs) ==
    IF i > Len(data) THEN freqs
    ELSE freqs_fold(data, i + 1, FreqsTable_add(freqs, data[i], 1))

construct_freqs_table(data) == freqs_fold(data, 1, FreqsTable_new)

(* construct_huffman_tree, first loop: one leaf per nonzero count *)

\* Body of the loop for one (token, freq) of the table.
push_leaf(freqs, token, st) ==
    IF freqs[token] > 0
    THEN [heap |-> st.heap \cup {HeapNode(freqs[token], st.next_id,
                                          new_leaf(token, freqs[token]))},
          next_id |-> saturating_add(st.next_id, 1)]
    ELSE st

\* The loop over the tokens lo..hi in ascending order, the state threaded
\* from each token to the next.  The range is split in halves, and the first
\* half is evaluated (by the test on it) before the second half starts, which
\* keeps the evaluation shallow.
RECURSIVE push_leaves(_, _, _, _)
push_leaves(freqs, lo, hi, st) ==
    IF lo = hi THEN push_leaf(freqs, lo, st)
    ELSE LET mid == (lo + hi) \div 2
             first == push_leaves(freqs, lo, mid, st)
         IN  IF first.next_id >= 0
             THEN push_leaves(freqs, mid + 1, hi, first)
             ELSE first

(* EncoderTable *)

EncoderTable_new == [b \in Byte |-> <<>>]

EncoderTable_get(encoder, token) == encoder[token]

EncoderTable_set(encoder, token, code) == [encoder EXCEPT ![token] = code]

RECURSIVE traverse_left_only(_, _, _)
traverse_left_only(n, code, table) ==
    IF n.kind = "Leaf" THEN EncoderTable_set(table, n.token, code)
    ELSE traverse_left_only(n.right, Append(code, FALSE),
                            traverse_left_only(n.left, Append(code, FALSE), table))

RECURSIVE traverse(_, _, _)
traverse(n, code, table) ==
    IF n.kind = "Leaf" THEN EncoderTable_set(table, n.token, code)
    ELSE traverse(n.right, Append(code, TRUE),
                  traverse(n.left, Append(code, FALSE), table))

construct_encoder_table_no_special(t) == traverse(t, <<>>, EncoderTable_new)

construct_encoder_table(t) ==
    IF t.kind = "Leaf"
    THEN EncoderTable_set(EncoderTable_new, t.token, <<FALSE>>)
    ELSE traverse(t, <<>>, EncoderTable_new)

(* Huffman::encode, the loop over the input bytes *)

extend_padded(data, code) == data \o code \o <<FALSE>>

extend(data, code) == data \o code

RECURSIVE encode_bytes(_, _, _, _)
encode_bytes(bytes, i, encoder, data) ==
    IF i > Len(bytes) THEN data
    ELSE encode_bytes(bytes, i + 1, encoder,
                      extend(data, EncoderTable_get(encoder, bytes[i])))

is_empty_never(bytes) == FALSE

is_empty(bytes) == Len(bytes) = 0

(* Results *)

NoResult == [kind |-> "None", val |-> <<>>, err |-> <<>>]

Ok(v) == [kind |-> "Ok", val |-> v, err |-> <<>>]

Err(e) == [kind |-> "Err", val |-> <<>>, err |-> e]

NoMessage == [tree |-> new_leaf(0, 0), encoded_data |-> <<>>, original_len |-> 0]

(* Huffman::decode, pieces of the loop body *)

child_swapped(n, bit) == IF bit THEN n.left ELSE n.right

child(n, bit) == IF bit THEN n.right ELSE n.left

reset_cursor_missing(root, at) == at

reset_cursor(root, at) == root

reached_len_never(len, expected) == FALSE

reached_len(len, expected) == len = expected

----------------------------------------------------------------------------
(* Messages that reach Huffman::decode from a file rather than from encode: *)
(* rmp_serde::from_slice yields any tree, any bits and any original_len.    *)

ForgeTokens == {65, 66}

deserialized_node(left, right) ==
    [kind |-> "Node", left |-> left, right |-> right, freq |-> 0]

RECURSIVE TreesWithLeaves(_)
TreesWithLeaves(n) ==
    IF n = 1 THEN {new_leaf(t, 0) : t \in ForgeTokens}
    ELSE UNION {{deserialized_node(l, r) :
                    l \in TreesWithLeaves(k), r \in TreesWithLeaves(n - k)} :
                k \in 1..(n - 1)}

ForgedTrees == UNION {TreesWithLeaves(n) : n \in 1..MaxLeaves}

BitSeqs(n) == SeqsUpTo(BOOLEAN, n)

Paddings == BitSeqs(MaxPad) \ {<<>>}

----------------------------------------------------------------------------
(* State machine *)

InitEncode ==
    /\ origin = "encoded"
    /\ input \in Inputs
    /\ pc = "enc_start"
    /\ tree = NoMessage.tree
    /\ encoded_data = NoMessage.encoded_data
    /\ original_len = NoMessage.original_len

InitDeserialized ==
    /\ origin = "deserialized"
    /\ input = <<>>
    /\ pc = "ready"
    /\ tree \in ForgedTrees
    /\ encoded_data \in BitSeqs(MaxBits)
    /\ original_len \in 0..MaxOrig

Init ==
    /\ (InitEncode \/ InitDeserialized)
    /\ heap = {}
    /\ next_id = 0
    /\ enc_result = "None"
    /\ runs = 1
    /\ prev = NoMessage
    /\ node = tree
    /\ bitpos = 1
    /\ decoded = <<>>
    /\ dec_result = NoResult
    /\ last_result = NoResult
    /\ events = {}

\* Huffman::encode up to the end of the first loop of construct_huffman_tree.
EncodeBegin ==
    /\ pc = "enc_start"
    /\ IF is_empty(input)
       THEN /\ tree' = new_leaf(0, 0)
            /\ encoded_data' = <<>>
            /\ original_len' = 0
            /\ enc_result' = "Ok"
            /\ pc' = "ready"
            /\ events' = {}
            /\ UNCHANGED <<heap, next_id>>
       ELSE LET freq_table == construct_freqs_table(input)
                pushed == push_leaves(freq_table, 0, ByteMax,
                                      [heap |-> {}, next_id |-> 0])
            IN  /\ events' = {"construct_huffman_tree"}
                /\ heap' = pushed.heap
                /\ next_id' = pushed.next_id
                /\ IF pushed.heap = {}
                   THEN /\ enc_result' = "Err"
                        /\ pc' = "enc_failed"
                   ELSE /\ enc_result' = "None"
                        /\ pc' = "enc_merge"
                /\ UNCHANGED <<tree, encoded_data, original_len>>
    /\ UNCHANGED <<input, origin, runs, prev, node, bitpos, decoded,
                   dec_result, last_result>>

\* One iteration of `while minheap.len() > 1`.
Merge ==
    /\ pc = "enc_merge"
    /\ Cardinality(heap) > 1
    /\ \E left_node \in PopCandidates(heap) :
       \E right_node \in PopCandidates(heap \ {left_node}) :
          LET combined_tree == new_node(left_node.tree, right_node.tree)
              combined_freq == left_node.freq + right_node.freq
              new_entry == HeapNode(combined_freq, next_id, combined_tree)
          IN  /\ heap' = (heap \ {left_node, right_node}) \cup {new_entry}
              /\ next_id' = saturating_add(next_id, 1)
    /\ UNCHANGED <<input, origin, pc, enc_result, tree, encoded_data,
                   original_len, runs, prev, node, bitpos, decoded,
                   dec_result, last_result, events>>

\* The loop has ended: pop the root, derive the table, encode the bytes.
EncodeFinish ==
    /\ pc = "enc_merge"
    /\ Cardinality(heap) = 1
    /\ \E root_node \in PopCandidates(heap) :
          LET root == root_node.tree
              encoder == construct_encoder_table(root)
          IN  /\ tree' = root
              /\ encoded_data' = encode_bytes(input, 1, encoder, <<>>)
              /\ original_len' = Len(input)
              /\ heap' = heap \ {root_node}
    /\ enc_result' = "Ok"
    /\ pc' = "ready"
    /\ node' = tree'
    /\ UNCHANGED <<input, origin, next_id, runs, prev, bitpos, decoded,
                   dec_result, last_result, events>>

\* A second call of Huffman::encode on the same bytes.
EncodeAgain ==
    /\ pc = "ready"
    /\ origin = "encoded"
    /\ runs = 1
    /\ prev' = [tree |-> tree, encoded_data |-> encoded_data,
                original_len |-> original_len]
    /\ runs' = 2
    /\ pc' = "enc_start"
    /\ enc_result' = "None"
    /\ tree' = NoMessage.tree
    /\ encoded_data' = NoMessage.encoded_data
    /\ original_len' = NoMessage.original_len
    /\ node' = tree'
    /\ UNCHANGED <<input, origin, heap, next_id, bitpos, decoded, dec_result,
                   last_result, events>>

RECURSIVE repeat(_, _)
repeat(token, n) == IF n = 0 THEN <<>> ELSE Append(repeat(token, n - 1), token)

\* Huffman::decode up to the start of the loop.
DecodeBegin ==
    /\ pc = "ready"
    /\ IF original_len = 0
       THEN /\ dec_result' = Ok(<<>>)
            /\ pc' = "dec_done"
            /\ UNCHANGED <<node, bitpos, decoded>>
       ELSE IF tree.kind = "Leaf"
       THEN /\ dec_result' = Ok(repeat(tree.token, original_len))
            /\ pc' = "dec_done"
            /\ UNCHANGED <<node, bitpos, decoded>>
       ELSE /\ decoded' = <<>>
            /\ node' = tree
            /\ bitpos' = 1
            /\ dec_result' = NoResult
            /\ pc' = "dec_loop"
    /\ UNCHANGED <<input, origin, heap, next_id, enc_result, tree,
                   encoded_data, original_len, runs, prev, last_result, events>>

\* One iteration of `for bit in message.encoded_data.iter()`.
DecodeBit ==
    /\ pc = "dec_loop"
    /\ bitpos <= Len(encoded_data)
    /\ bitpos' = bitpos + 1
    /\ LET bit == encoded_data[bitpos]
       IN  IF node.kind = "Node"
           THEN /\ UNCHANGED events
                /\ LET next == child(node, bit)
                   IN  IF next.kind = "Leaf"
                       THEN /\ decoded' = Append(decoded, next.token)
                            /\ node' = reset_cursor(tree, next)
                            /\ pc' = IF reached_len(Len(decoded'), original_len)
                                     THEN "dec_tail" ELSE "dec_loop"
                       ELSE /\ node' = next
                            /\ UNCHANGED <<decoded, pc>>
           ELSE /\ decoded' = Append(decoded, node.token)
                /\ node' = reset_cursor(tree, node)
                /\ pc' = IF reached_len(Len(decoded'), original_len)
                         THEN "dec_tail" ELSE "dec_loop"
                /\ events' = events \cup {"leaf_arm"}
    /\ UNCHANGED <<input, origin, heap, next_id, enc_result, tree,
                   encoded_data, original_len, runs, prev, dec_result,
                   last_result>>

\* After the loop (left by break or by exhaustion of the bits): the final
\* push and the length check.
DecodeFinish ==
    /\ \/ pc = "dec_tail"
       \/ pc = "dec_loop" /\ bitpos > Len(encoded_data)
    /\ LET final_push == Len(decoded) < original_len /\ node.kind = "Leaf"
           final == IF final_push THEN Append(decoded, node.token) ELSE decoded
       IN  /\ decoded' = final
           /\ events' = IF final_push THEN events \cup {"final_push"} ELSE events
           /\ dec_result' = IF Len(final) # original_len
                            THEN Err(<<"Decoded length mismatch", original_len, Len(final)>>)
                            ELSE Ok(final)
    /\ pc' = "dec_done"
    /\ UNCHANGED <<input, origin, heap, next_id, enc_result, tree,
                   encoded_data, original_len, runs, prev, node, bitpos,
                   last_result>>

\* The message comes back from its container with extra bits after the
\* encoded ones, and is decoded again.
AppendPadding ==
    /\ pc = "dec_done"
    /\ origin = "encoded"
    /\ \E x \in Paddings : encoded_data' = encoded_data \o x
    /\ origin' = "padded"
    /\ last_result' = dec_result
    /\ dec_result' = NoResult
    /\ pc' = "ready"
    /\ UNCHANGED <<input, heap, next_id, enc_result, tree, original_len,
                   runs, prev, node, bitpos, decoded, events>>

Next ==
    \/ EncodeBegin
    \/ Merge
    \/ EncodeFinish
    \/ EncodeAgain
    \/ DecodeBegin
    \/ DecodeBit
    \/ DecodeFinish
    \/ AppendPadding

Spec == Init /\ [][Next]_vars

----------------------------------------------------------------------------
(* Vocabulary of the properties *)

Distinct(seq) == {seq[i] : i \in 1..Len(seq)}

Count(b, seq) == Cardinality({i \in 1..Len(seq) : seq[i] = b})

FromEncode == origin \in {"encoded", "padded"}

InDecode == pc \in {"dec_loop", "dec_tail", "dec_done"}

IsPrefix(a, b) == Len(a) <= Len(b) /\ SubSeq(b, 1, Len(a)) = a

RECURSIVE NumLeaves(_)
NumLeaves(t) ==
    IF t.kind = "Leaf" THEN 1 ELSE NumLeaves(t.left) + NumLeaves(t.right)

RECURSIVE Leaves(_)
Leaves(t) ==
    IF t.kind = "Leaf" THEN {[token |-> t.token, freq |-> t.freq]}
    ELSE Leaves(t.left) \cup Leaves(t.right)

RECURSIVE SumLeafFreq(_)
SumLeafFreq(t) ==
    IF t.kind = "Leaf" THEN t.freq ELSE SumLeafFreq(t.left) + SumLeafFreq(t.right)

RECURSIVE NodesSumChildren(_)
NodesSumChildren(t) ==
    \/ t.kind = "Leaf"
    \/ /\ t.freq = t.left.freq + t.right.freq
       /\ NodesSumChildren(t.left)
       /\ NodesSumChildren(t.right)

\* The root-to-leaf paths of a tree, each with the token it ends on.
RECURSIVE RootPaths(_)
RootPaths(t) ==
    IF t.kind = "Leaf" THEN {[token |-> t.token, path |-> <<>>]}
    ELSE {[token |-> p.token, path |-> <<FALSE>> \o p.path] : p \in RootPaths(t.left)}
         \cup
         {[token |-> p.token, path |-> <<TRUE>> \o p.path] : p \in RootPaths(t.right)}

PathsOf(t, b) == {p.path : p \in {q \in RootPaths(t) : q.token = b}}

\* Number of complete root-to-leaf walks in the bits from position i on,
\* the walk in progress being at `at`.
RECURSIVE WalksFrom(_, _, _, _)
WalksFrom(t, at, bits, i) ==
    IF i > Len(bits) THEN 0
    ELSE LET next == IF bits[i] THEN at.right ELSE at.left
         IN  IF next.kind = "Leaf"
             THEN 1 + WalksFrom(t, t, bits, i + 1)
             ELSE WalksFrom(t, next, bits, i + 1)

\* Symbols the bits can produce under the tree.
Producible(t, bits) ==
    IF t.kind = "Leaf" THEN Len(bits) ELSE WalksFrom(t, t, bits, 1)

LexLess(a, b) == a.freq < b.freq \/ (a.freq = b.freq /\ a.id < b.id)

Least(h) == CHOOSE e \in h : \A o \in h \ {e} : LexLess(e, o)

RECURSIVE SumCodeLen(_, _, _)
SumCodeLen(table, bytes, i) ==
    IF i > Len(bytes) THEN 0
    ELSE Len(table[bytes[i]]) + SumCodeLen(table, bytes, i + 1)

----------------------------------------------------------------------------
(* Properties *)

\* C1 (round trip): encode never fails, and decoding the message encode
\* returned for b yields Ok(b), whether b is empty, has one distinct symbol
\* or several.
C1_RoundTrip ==
    origin = "encoded" =>
        /\ enc_result # "Err"
        /\ pc # "enc_failed"
        /\ pc \in {"ready", "dec_loop", "dec_tail", "dec_done"} => enc_result = "Ok"
        /\ pc = "dec_done" => dec_result = Ok(input)

C1_Witness ==
    /\ origin = "encoded"
    /\ pc = "dec_done"
    /\ Cardinality(Distinct(input)) >= 2
    /\ Len(input) > Cardinality(Distinct(input))
    /\ dec_result = Ok(input)

\* C2 (corruption safety, as claimed): whatever the tree shape, when
\* original_len exceeds the number of symbols the bits can produce, decode
\* returns the length-mismatch error.
C2_CorruptionSafety ==
    (pc = "dec_done" /\ original_len > Producible(tree, encoded_data))
        => dec_result.kind = "Err"

\* C3 (empty input): encode of the empty sequence returns Ok with
\* original_len 0 and no bits, never calls construct_huffman_tree, and
\* decode of that message returns Ok of the empty sequence.
C3_EmptyInput ==
    (origin = "encoded" /\ input = <<>>) =>
        /\ "construct_huffman_tree" \notin events
        /\ enc_result # "Err"
        /\ pc \in {"ready", "dec_done"} =>
              /\ enc_result = "Ok"
              /\ original_len = 0
              /\ encoded_data = <<>>
        /\ pc \notin {"enc_start", "ready", "dec_done"} => FALSE
        /\ pc = "dec_done" => dec_result = Ok(<<>>)

C3_Witness ==
    /\ origin = "encoded"
    /\ input = <<>>
    /\ pc = "dec_done"
    /\ enc_result = "Ok"
    /\ dec_result = Ok(<<>>)

\* C4 (single symbol): for n >= 1 copies of one byte s the tree is the bare
\* Leaf {s, n}, no Node is ever built, the table gives s the code {0}, the
\* encoded bits are n zeros, original_len is n and decode returns n copies
\* of s.
C4_SingleSymbol ==
    (origin = "encoded" /\ Cardinality(Distinct(input)) = 1) =>
        LET s == input[1]
            n == Len(input)
        IN  /\ pc = "enc_merge" => heap = {HeapNode(n, 0, new_leaf(s, n))}
            /\ pc \in {"ready", "dec_done"} =>
                  /\ tree = new_leaf(s, n)
                  /\ construct_encoder_table(tree)[s] = <<FALSE>>
                  /\ Len(encoded_data) = n
                  /\ \A i \in 1..n : encoded_data[i] = FALSE
                  /\ original_len = n
            /\ pc = "dec_done" =>
                  /\ dec_result.kind = "Ok"
                  /\ Len(dec_result.val) = n
                  /\ \A i \in 1..n : dec_result.val[i] = s

C4_Witness ==
    /\ origin = "encoded"
    /\ Cardinality(Distinct(input)) = 1
    /\ Len(input) >= 2
    /\ pc = "dec_done"
    /\ tree.kind = "Leaf"
    /\ dec_result = Ok(input)

C5_Keys ==
    pc = "enc_merge" =>
        /\ \A a, b \in heap : a # b => <<a.freq, a.id>> # <<b.freq, b.id>>
        /\ \A e \in heap :
              /\ e.id < next_id
              /\ e.tree.kind = "Leaf" =>
                    e.id = Cardinality({b \in Distinct(input) : b < e.tree.token})
              /\ e.tree.kind = "Node" => e.id >= Cardinality(Distinct(input))

C5_Same ==
    (origin = "encoded" /\ runs = 2 /\ pc \in {"ready", "dec_loop", "dec_tail", "dec_done"}) =>
        /\ tree = prev.tree
        /\ encoded_data = prev.encoded_data
        /\ original_len = prev.original_len

C5_Step ==
    (pc = "enc_merge" /\ pc' = "enc_merge" /\ heap' # heap) =>
        LET l == Least(heap)
            r == Least(heap \ {l})
        IN  /\ next_id' > next_id
            /\ heap' = (heap \ {l, r}) \cup
                       {[freq |-> l.freq + r.freq, id |-> next_id,
                         tree |-> [kind |-> "Node", left |-> l.tree,
                                   right |-> r.tree,
                                   freq |-> l.tree.freq + r.tree.freq]]}

\* C5 (determinism of the merge): leaf ids are 0,1,2,... in ascending byte
\* order and merged entries get fresh larger ids, so the (freq, id) keys in
\* the heap are pairwise distinct; every merge takes the least entry under
\* lexicographic (freq, id) as left child and the next least as right child;
\* two encodes of the same input return the same tree and the same bits.
C5_Determinism == [](C5_Keys /\ C5_Same) /\ [][C5_Step]_vars

C5_Witness ==
    /\ origin = "encoded"
    /\ runs = 2
    /\ pc = "ready"
    /\ \E a, b \in Distinct(input) : a # b /\ Count(a, input) = Count(b, input)
    /\ Cardinality(Distinct(input)) >= 3
    /\ tree = prev.tree
    /\ encoded_data = prev.encoded_data

\* C6 (frequency conservation): the tree encode returns for a nonempty
\* input has exactly one Leaf per distinct input byte, carrying that byte's
\* number of occurrences; every Node's freq is the sum of its children's;
\* the leaf frequencies and the root's freq sum to the input length.
C6_FrequencyConservation ==
    (FromEncode /\ input # <<>> /\ enc_result = "Ok") =>
        /\ NumLeaves(tree) = Cardinality(Distinct(input))
        /\ Leaves(tree) = {[token |-> b, freq |-> Count(b, input)] : b \in Distinct(input)}
        /\ NodesSumChildren(tree)
        /\ SumLeafFreq(tree) = Len(input)
        /\ freq(tree) = Len(input)

C6_Witness ==
    /\ origin = "encoded"
    /\ enc_result = "Ok"
    /\ pc = "ready"
    /\ Cardinality(Distinct(input)) >= 3
    /\ Len(input) > 3
    /\ freq(tree) = Len(input)

\* C7 (compression sanity): the encoded bit length is the sum over the input
\* bytes of the length of each byte's code (no padding, no framing); for
\* "AAAAAAAABBBCCD" it is below 112 = 8 x 14 and decode returns the input.
C7_CompressionSanity ==
    (origin = "encoded" /\ enc_result = "Ok") =>
        /\ Len(encoded_data) = SumCodeLen(construct_encoder_table(tree), input, 1)
        /\ input = SkewedInput =>
              /\ Len(input) = 14
              /\ 8 * Len(input) = 112
              /\ Len(encoded_data) < 112
              /\ pc = "dec_done" => dec_result = Ok(input)

C7_Witness ==
    /\ origin = "encoded"
    /\ input = SkewedInput
    /\ pc = "dec_done"
    /\ Len(encoded_data) = 23
    /\ dec_result = Ok(SkewedInput)

\* C8 (prefix-free table): for a tree built from a nonempty input the table
\* gives every occurring byte a non-empty code, the path from the root to
\* its Leaf (the single bit 0 for a bare Leaf), gives every absent byte the
\* empty code, and no occurring byte's code is a prefix of another's.
C8_PrefixFree ==
    (FromEncode /\ input # <<>> /\ enc_result = "Ok") =>
        LET table == construct_encoder_table(tree)
            present == Distinct(input)
        IN  /\ DOMAIN table = Byte
            /\ \A b \in present :
                  /\ table[b] # <<>>
                  /\ IF tree.kind = "Leaf" THEN table[b] = <<FALSE>>
                     ELSE PathsOf(tree, b) = {table[b]}
            /\ \A b \in Byte \ present : table[b] = <<>>
            /\ \A a, b \in present : a # b => ~IsPrefix(table[a], table[b])

C8_Witness ==
    /\ origin = "encoded"
    /\ enc_result = "Ok"
    /\ pc = "ready"
    /\ Cardinality(Distinct(input)) >= 3
    /\ \E b \in Distinct(input) : Len(construct_encoder_table(tree)[b]) = 2

C9_Bounded ==
    /\ pc \in {"dec_loop", "dec_tail"} => Len(decoded) <= original_len
    /\ (pc = "dec_done" /\ dec_result.kind = "Ok") => Len(dec_result.val) = original_len
    /\ (pc = "dec_done" /\ origin = "padded") =>
          /\ last_result.kind = "Ok"
          /\ dec_result = last_result

C9_Stop ==
    (pc \in {"dec_loop", "dec_tail"} /\ Len(decoded) = original_len) =>
        (bitpos' = bitpos /\ decoded' = decoded)

\* C9 (decode stops at original_len): the decode loop never holds more than
\* original_len symbols, consumes no bit once it holds original_len, and so
\* decoding an encoded message with any bits appended returns what decoding
\* the message itself returned.
C9_StopsAtOriginalLen == []C9_Bounded /\ [][C9_Stop]_vars

C9_Witness ==
    /\ origin = "padded"
    /\ pc = "dec_done"
    /\ tree.kind = "Node"
    /\ bitpos <= Len(encoded_data)
    /\ Len(decoded) = original_len
    /\ dec_result = Ok(input)

\* C10 (cursor invariant): with a Node-rooted tree the cursor is never a
\* Leaf after a consumed bit, the Leaf arm of the loop and the final push
\* are never taken, and bits that run out before original_len symbols (in
\* the middle of a code or not) give the length-mismatch error, the emitted
\* symbols being exactly the complete walks.
C10_CursorNeverOnLeaf ==
    (tree.kind = "Node" /\ InDecode) =>
        /\ node.kind = "Node"
        /\ "leaf_arm" \notin events
        /\ "final_push" \notin events
        /\ (pc = "dec_done" /\ Producible(tree, encoded_data) < original_len) =>
              /\ dec_result.kind = "Err"
              /\ Len(decoded) = Producible(tree, encoded_data)

C10_Witness ==
    /\ tree.kind = "Node"
    /\ pc = "dec_done"
    /\ Len(decoded) >= 1
    /\ bitpos > Len(encoded_data)
    /\ node # tree
    /\ node.kind = "Node"
    /\ dec_result.kind = "Err"

====
